---- MODULE Spec2Model ----
(***************************************************************************)
(* Model of the document routes of the resume builder                      *)
(* (src/app/api/[[...route]]/document.ts): the five server-side            *)
(* collections and the seven request handlers that read and write them.    *)
(*                                                                         *)
(* JSON values are modelled by tokens: a string field holds either         *)
(* Undefined (key absent) or a token such as "str:T1", "num:0",            *)
(* "bool:false"; a numeric id field holds a natural number or NoNum (key   *)
(* absent).  An absent array and an empty array behave alike in the code   *)
(* and are both the empty sequence; an absent personalInfo object is the   *)
(* empty sequence and a present one is a one-element sequence.             *)
(***************************************************************************)
EXTENDS Integers, Sequences, FiniteSets, TLC

\* ---------------------------------------------------------------- bounds
MaxDocs == 2       \* at most this many documents are created
MaxRecords == 1    \* at most this many child records in the four child collections

\* the instants (milliseconds) the clock Date.now() passes through
Instants == {1, 2}

\* the values Math.floor(Math.random() * 1000) is drawn from
RandomDraws == {0, 1}

\* ---------------------------------------------------------------- values
Undefined == "undefined"
NoNum == -1

Users == {"u1", "u2"}

\* the identifiers generateDocUUID hands out, in order
UUIDPool == <<"d1", "d2", "d3", "d4">>

\* the documentIds requests name
UUIDs == {UUIDPool[k] : k \in 1..MaxDocs}

\* JavaScript truthiness of a JSON value (the `if (title)` tests).
FalsyValues == {Undefined, "null", "str:", "num:0", "bool:false"}

\* a test that takes every supplied value, falsy or not
TruthyPresent(v) == v # Undefined

Truthy(v) == v \notin FalsyValues

\* Date.prototype.toISOString: the instant as <<seconds, milliseconds>>.
ToISOString(ms) == <<ms \div 1000, ms % 1000>>

\* new Date(iso).getTime()
GetTime(iso) == iso[1] * 1000 + iso[2]

AuthorName(u) == IF u = "u1" THEN "Ann Lee" ELSE "Bob "

AuthorEmail(u) == IF u = "u1" THEN "ann@example.com" ELSE ""

VARIABLES now, documents, personalInfo, experience, education, skills, req, resp

vars == <<now, documents, personalInfo, experience, education, skills, req, resp>>

store == <<documents, personalInfo, experience, education, skills>>

children == <<personalInfo, experience, education, skills>>

\* ---------------------------------------------------------------- helpers
\* Array.prototype.findIndex: the first index whose element satisfies P, 0 for -1.
FindIndex(s, P(_)) ==
  IF \E i \in 1..Len(s) : P(s[i])
  THEN CHOOSE i \in 1..Len(s) : P(s[i]) /\ \A j \in 1..(i - 1) : ~P(s[j])
  ELSE 0

\* Array.prototype.filter
Filter(s, P(_)) == SelectSeq(s, P)

\* Object spread {...a, ...b} of two child records: the keys b carries win.
Spread(a, b) ==
  [id    |-> IF b.id # NoNum THEN b.id ELSE a.id,
   docId |-> IF b.docId # NoNum THEN b.docId ELSE a.docId,
   val   |-> IF b.val # Undefined THEN b.val ELSE a.val]

\* const { id, ...data } = item
Rest(item) == [item EXCEPT !.id = NoNum]

\* generateDocUUID(): an identifier no stored document carries.
GenerateDocUUID == UUIDPool[Len(documents) + 1]

NewDocPublic(u, title, uuid, t) ==
  [id |-> t, title |-> title, userId |-> u, documentId |-> uuid,
   authorName |-> AuthorName(u), authorEmail |-> AuthorEmail(u),
   status |-> "str:public",
   createdAt |-> ToISOString(t), updatedAt |-> ToISOString(t),
   thumbnail |-> Undefined, summary |-> Undefined,
   themeColor |-> Undefined, currentPosition |-> Undefined]

NewDoc(u, title, uuid, t) ==
  [id |-> t, title |-> title, userId |-> u, documentId |-> uuid,
   authorName |-> AuthorName(u), authorEmail |-> AuthorEmail(u),
   status |-> "str:private",
   createdAt |-> ToISOString(t), updatedAt |-> ToISOString(t),
   thumbnail |-> Undefined, summary |-> Undefined,
   themeColor |-> Undefined, currentPosition |-> Undefined]

\* no request is being handled
NoReq == [op |-> "none", user |-> "", documentId |-> "", body |-> <<>>]

NoResp == [code |-> 0, message |-> "", data |-> <<>>]

Idle == req.op = "none"

Init ==
  /\ now = 1
  /\ documents = <<>>
  /\ personalInfo = <<>>
  /\ experience = <<>>
  /\ education = <<>>
  /\ skills = <<>>
  /\ req = NoReq
  /\ resp = NoResp

\* The clock advances between requests.
Tick ==
  /\ Idle
  /\ now + 1 \in Instants
  /\ now' = now + 1
  /\ UNCHANGED <<documents, personalInfo, experience, education, skills, req, resp>>

\* POST /create
Create(u, title) ==
  /\ Idle
  /\ Len(documents) < MaxDocs
  /\ LET newDoc == NewDoc(u, title, GenerateDocUUID, now) IN
       /\ documents' = Append(documents, newDoc)
       /\ req' = [op |-> "create", user |-> u, documentId |-> "", body |-> title]
       /\ resp' = [code |-> 200, message |-> "", data |-> newDoc]
  /\ UNCHANGED <<now, personalInfo, experience, education, skills>>

\* PATCH /update/:documentId, the scalar fields and the timestamp.
UpdateScalarsPresent(doc, p, t) ==
  [doc EXCEPT
     !.title = IF TruthyPresent(p.title) THEN p.title ELSE @,
     !.thumbnail = IF TruthyPresent(p.thumbnail) THEN p.thumbnail ELSE @,
     !.summary = IF TruthyPresent(p.summary) THEN p.summary ELSE @,
     !.themeColor = IF TruthyPresent(p.themeColor) THEN p.themeColor ELSE @,
     !.status = IF TruthyPresent(p.status) THEN p.status ELSE @,
     !.currentPosition = IF TruthyPresent(p.currentPosition) THEN p.currentPosition ELSE @,
     !.updatedAt = ToISOString(t)]

UpdateScalarsKeepStamp(doc, p, t) ==
  [doc EXCEPT
     !.title = IF Truthy(p.title) THEN p.title ELSE @,
     !.thumbnail = IF Truthy(p.thumbnail) THEN p.thumbnail ELSE @,
     !.summary = IF Truthy(p.summary) THEN p.summary ELSE @,
     !.themeColor = IF Truthy(p.themeColor) THEN p.themeColor ELSE @,
     !.status = IF Truthy(p.status) THEN p.status ELSE @,
     !.currentPosition = IF Truthy(p.currentPosition) THEN p.currentPosition ELSE @]

UpdateScalars(doc, p, t) ==
  [doc EXCEPT
     !.title = IF Truthy(p.title) THEN p.title ELSE @,
     !.thumbnail = IF Truthy(p.thumbnail) THEN p.thumbnail ELSE @,
     !.summary = IF Truthy(p.summary) THEN p.summary ELSE @,
     !.themeColor = IF Truthy(p.themeColor) THEN p.themeColor ELSE @,
     !.status = IF Truthy(p.status) THEN p.status ELSE @,
     !.currentPosition = IF Truthy(p.currentPosition) THEN p.currentPosition ELSE @,
     !.updatedAt = ToISOString(t)]

\* PATCH /update/:documentId, the personalInfo upsert.
UpdatePersonalInfo(items, info, docId, t) ==
  IF info = <<>> THEN items
  ELSE LET i == FindIndex(items, LAMBDA r : r.docId = docId) IN
       IF i # 0
       THEN [items EXCEPT ![i] = Spread(items[i], info[1])]
       ELSE Append(items, Spread([id |-> t, docId |-> docId, val |-> Undefined], info[1]))

\* The loop body shared by the experience, education and skills sections:
\* an item with an id is merged into the record with that id and docId, or
\* dropped when there is none; an item without an id is pushed as a new
\* record with id Date.now() + Math.floor(Math.random() * 1000).
RECURSIVE ApplyItems(_, _, _, _, _, _)
ApplyItems(items, list, docId, t, rs, k) ==
  IF k > Len(list) THEN items
  ELSE LET item == list[k]
           data == Rest(item)
           i == FindIndex(items, LAMBDA r : r.id = item.id /\ r.docId = docId)
           next == IF item.id # NoNum
                   THEN IF i # 0
                        THEN [items EXCEPT ![i] = Spread(items[i], data)]
                        ELSE items
                   ELSE Append(items,
                          Spread([id |-> t + rs[k], docId |-> docId, val |-> Undefined], data))
       IN ApplyItems(next, list, docId, t, rs, k + 1)

\* a loop that matches an item to a record by id alone
RECURSIVE ApplyItemsAnyDoc(_, _, _, _, _, _)
ApplyItemsAnyDoc(items, list, docId, t, rs, k) ==
  IF k > Len(list) THEN items
  ELSE LET item == list[k]
           data == Rest(item)
           i == FindIndex(items, LAMBDA r : r.id = item.id)
           next == IF item.id # NoNum
                   THEN IF i # 0
                        THEN [items EXCEPT ![i] = Spread(items[i], data)]
                        ELSE items
                   ELSE Append(items,
                          Spread([id |-> t + rs[k], docId |-> docId, val |-> Undefined], data))
       IN ApplyItemsAnyDoc(next, list, docId, t, rs, k + 1)

UpdateExperienceAnyDoc(items, list, docId, t, rs) ==
  ApplyItemsAnyDoc(items, list, docId, t, rs, 1)

\* PATCH /update/:documentId, the experience, education and skills sections
UpdateExperience(items, list, docId, t, rs) == ApplyItems(items, list, docId, t, rs, 1)

UpdateEducation(items, list, docId, t, rs) == ApplyItems(items, list, docId, t, rs, 1)

UpdateSkills(items, list, docId, t, rs) == ApplyItems(items, list, docId, t, rs, 1)

\* the ownership lookup of update and getById
OwnedIndex(u, d) ==
  FindIndex(documents, LAMBDA doc : doc.documentId = d /\ doc.userId = u)

Draws(list) == [1..Len(list) -> RandomDraws]

\* PATCH /update/:documentId
Update(u, d, p) ==
  LET idx == OwnedIndex(u, d) IN
  /\ Idle
  /\ req' = [op |-> "update", user |-> u, documentId |-> d, body |-> p]
  /\ IF idx = 0
     THEN /\ resp' = [code |-> 404, message |-> "Document not found", data |-> <<>>]
          /\ UNCHANGED <<documents, personalInfo, experience, education, skills>>
     ELSE LET existingDocument == documents[idx] IN
          /\ documents' = [documents EXCEPT ![idx] = UpdateScalars(existingDocument, p, now)]
          /\ personalInfo' =
               UpdatePersonalInfo(personalInfo, p.personalInfo, existingDocument.id, now)
          /\ \E rs \in Draws(p.experience) :
               experience' = UpdateExperience(experience, p.experience, existingDocument.id, now, rs)
          /\ \E rs \in Draws(p.education) :
               education' = UpdateEducation(education, p.education, existingDocument.id, now, rs)
          /\ \E rs \in Draws(p.skills) :
               skills' = UpdateSkills(skills, p.skills, existingDocument.id, now, rs)
          /\ Len(personalInfo') + Len(experience') + Len(education') + Len(skills') <= MaxRecords
          /\ resp' = [code |-> 200, message |-> "Updated successfully", data |-> <<>>]
  /\ UNCHANGED now

\* the lookup of restore: owned by the caller and archived
ArchivedIndexAnyStatus(u, d) ==
  FindIndex(documents, LAMBDA doc : doc.documentId = d /\ doc.userId = u)

ArchivedIndex(u, d) ==
  FindIndex(documents,
    LAMBDA doc : doc.documentId = d /\ doc.userId = u /\ doc.status = "str:archived")

RestoreGuardLax(d, status) ==
  IF d = "" THEN "DocumentId must be provided"
  ELSE "ok"

\* the two guards of restore on the request body
RestoreGuard(d, status) ==
  IF d = "" THEN "DocumentId must be provided"
  ELSE IF status # "str:archived" THEN "Status must be archived before restore"
  ELSE "ok"

\* PATCH /restore/archive
Restore(u, d, status) ==
  LET guard == RestoreGuard(d, status)
      idx == ArchivedIndex(u, d) IN
  /\ Idle
  /\ req' = [op |-> "restore", user |-> u, documentId |-> d, body |-> status]
  /\ IF guard # "ok"
     THEN /\ resp' = [code |-> 400, message |-> guard, data |-> <<>>]
          /\ UNCHANGED documents
     ELSE IF idx = 0
     THEN /\ resp' = [code |-> 404, message |-> "Document not found", data |-> <<>>]
          /\ UNCHANGED documents
     ELSE /\ documents' = [documents EXCEPT ![idx].status = "str:private",
                                            ![idx].updatedAt = ToISOString(now)]
          /\ resp' = [code |-> 200, message |-> "Updated successfully",
                      data |-> documents'[idx]]
  /\ UNCHANGED <<now, personalInfo, experience, education, skills>>

\* Array.prototype.sort with the comparator b.updatedAt - a.updatedAt
\* (stable, most recently updated first).
RECURSIVE SortByUpdatedAtDesc(_)
SortByUpdatedAtDesc(s) ==
  IF s = <<>> THEN <<>>
  ELSE LET i == CHOOSE i \in 1..Len(s) :
                  /\ \A j \in 1..Len(s) : GetTime(s[j].updatedAt) <= GetTime(s[i].updatedAt)
                  /\ \A j \in 1..(i - 1) : GetTime(s[j].updatedAt) < GetTime(s[i].updatedAt)
       IN <<s[i]>> \o SortByUpdatedAtDesc(SubSeq(s, 1, i - 1) \o SubSeq(s, i + 1, Len(s)))

ListActiveNotPublic(u) ==
  SortByUpdatedAtDesc(
    Filter(documents, LAMBDA doc : doc.userId = u /\ doc.status = "str:private"))

\* GET /all over a given documents array: the caller's documents that are
\* not archived, sorted
ListActiveOf(docs, u) ==
  SortByUpdatedAtDesc(
    Filter(docs, LAMBDA doc : doc.userId = u /\ doc.status # "str:archived"))

\* GET /all: the listing of the stored documents
ListActive(u) == ListActiveOf(documents, u)

\* GET /trash/all: the caller's archived documents
ListArchived(u) ==
  Filter(documents, LAMBDA doc : doc.userId = u /\ doc.status = "str:archived")

\* the join of a document with its child records
Aggregate(document) ==
  LET pi == FindIndex(personalInfo, LAMBDA r : r.docId = document.id) IN
  [document |-> document,
   personalInfo |-> IF pi = 0 THEN <<>> ELSE <<personalInfo[pi]>>,
   experiences |-> Filter(experience, LAMBDA r : r.docId = document.id),
   educations |-> Filter(education, LAMBDA r : r.docId = document.id),
   skills |-> Filter(skills, LAMBDA r : r.docId = document.id)]

PublicIndexAnyStatus(d) ==
  FindIndex(documents, LAMBDA doc : doc.documentId = d)

\* the lookup of the public route
PublicIndex(d) ==
  FindIndex(documents, LAMBDA doc : doc.documentId = d /\ doc.status = "str:public")

GetAll(u) ==
  /\ Idle
  /\ req' = [op |-> "all", user |-> u, documentId |-> "", body |-> <<>>]
  /\ resp' = [code |-> 200, message |-> "", data |-> ListActive(u)]
  /\ UNCHANGED <<now, documents, personalInfo, experience, education, skills>>

GetTrash(u) ==
  /\ Idle
  /\ req' = [op |-> "trash", user |-> u, documentId |-> "", body |-> <<>>]
  /\ resp' = [code |-> 200, message |-> "", data |-> ListArchived(u)]
  /\ UNCHANGED <<now, documents, personalInfo, experience, education, skills>>

\* GET /:documentId, the response
GetByIdResp(u, d) ==
  LET idx == OwnedIndex(u, d) IN
  IF idx = 0
  THEN [code |-> 404, message |-> "Document not found", data |-> <<>>]
  ELSE [code |-> 200, message |-> "", data |-> Aggregate(documents[idx])]

\* GET /:documentId
GetById(u, d) ==
  /\ Idle
  /\ req' = [op |-> "get", user |-> u, documentId |-> d, body |-> <<>>]
  /\ resp' = GetByIdResp(u, d)
  /\ UNCHANGED <<now, documents, personalInfo, experience, education, skills>>

\* GET /public/doc/:documentId (no authenticated user)
GetPublic(d) ==
  LET idx == PublicIndex(d) IN
  /\ Idle
  /\ req' = [op |-> "public", user |-> "", documentId |-> d, body |-> <<>>]
  /\ resp' = IF idx = 0
             THEN [code |-> 401, message |-> "unauthorized", data |-> <<>>]
             ELSE [code |-> 200, message |-> "", data |-> Aggregate(documents[idx])]
  /\ UNCHANGED <<now, documents, personalInfo, experience, education, skills>>

\* The handler returns c.json(...): the response leaves and the server is
\* free for the next request (each request is handled to completion).
Respond ==
  /\ ~Idle
  /\ req' = NoReq
  /\ resp' = NoResp
  /\ UNCHANGED <<now, documents, personalInfo, experience, education, skills>>

\* ---------------------------------------------------------------- requests
Titles == {"str:T1", "str:T2"}

EmptyPayload ==
  [title |-> Undefined, thumbnail |-> Undefined, summary |-> Undefined,
   themeColor |-> Undefined, status |-> Undefined, currentPosition |-> Undefined,
   personalInfo |-> <<>>, experience |-> <<>>, education |-> <<>>, skills |-> <<>>]

\* bodies that change the status (or nothing)
StatusPayloads ==
  {[EmptyPayload EXCEPT !.status = s] :
     s \in {Undefined, "str:", "str:public", "str:archived"}}

\* the status field of a restore body
RestoreStatuses == {"str:archived", "str:private"}

\* the documentId of a restore body; "" stands for a body without one
RestoreTargets == UUIDs \cup {""}

NextLifecycle ==
  \/ Tick
  \/ Respond
  \/ \E u \in Users, t \in Titles : Create(u, t)
  \/ \E u \in Users, d \in UUIDs, p \in StatusPayloads : Update(u, d, p)
  \/ \E u \in Users, d \in RestoreTargets, s \in RestoreStatuses : Restore(u, d, s)
  \/ \E u \in Users : GetAll(u)
  \/ \E u \in Users : GetTrash(u)
  \/ \E u \in Users, d \in UUIDs : GetById(u, d)
  \/ \E d \in UUIDs : GetPublic(d)

SpecLifecycle == Init /\ [][NextLifecycle]_vars

\* the scalar fields update copies from the body
ScalarFields == {"title", "thumbnail", "summary", "themeColor", "status", "currentPosition"}

\* a body that carries g[f] for every scalar field f
ScalarPayload(g) ==
  [EmptyPayload EXCEPT !.title = g["title"], !.thumbnail = g["thumbnail"],
                       !.summary = g["summary"], !.themeColor = g["themeColor"],
                       !.status = g["status"], !.currentPosition = g["currentPosition"]]

\* two truthy values per field
ValV == [title |-> "str:T2", thumbnail |-> "str:a.png", summary |-> "str:s1",
         themeColor |-> "str:#111", status |-> "str:public", currentPosition |-> "num:1"]

ValW == [title |-> "str:T3", thumbnail |-> "str:b.png", summary |-> "str:s2",
         themeColor |-> "str:#222", status |-> "str:archived", currentPosition |-> "num:2"]

OddFields == {"title", "summary", "status"}

\* bodies for the scalar fields: every field falsy in one of five ways,
\* every field truthy, and two mixtures of truthy and falsy fields
ScalarPayloads ==
  {ScalarPayload([f \in ScalarFields |-> v]) : v \in FalsyValues}
  \cup {ScalarPayload(ValV), ScalarPayload(ValW)}
  \cup {ScalarPayload([f \in ScalarFields |-> IF f \in OddFields THEN ValV[f] ELSE "str:"]),
        ScalarPayload([f \in ScalarFields |-> IF f \in OddFields THEN "num:0" ELSE ValW[f]])}

NextScalars ==
  \/ Tick
  \/ Respond
  \/ \E u \in Users : Create(u, "str:T1")
  \/ \E u \in Users, d \in UUIDs, p \in ScalarPayloads : Update(u, d, p)
  \/ \E u \in Users, d \in UUIDs : Restore(u, d, "str:archived")
  \/ \E u \in Users : GetAll(u)
  \/ \E u \in Users : GetTrash(u)
  \/ \E u \in Users, d \in UUIDs : GetById(u, d)
  \/ \E d \in UUIDs : GetPublic(d)

SpecScalars == Init /\ [][NextScalars]_vars

\* items of the experience, education and skills lists of a body
Ins == [id |-> NoNum, docId |-> NoNum, val |-> "str:a"]

Upd(k) == [id |-> k, docId |-> NoNum, val |-> "str:b"]

\* items that carry a docId of their own
InsTo(j) == [id |-> NoNum, docId |-> j, val |-> "str:a"]

UpdTo(k, j) == [id |-> k, docId |-> j, val |-> "str:b"]

\* an item whose id no record ever gets
UpdUnknown == Upd(9)

\* bodies whose items carry no docId
PlainItemPayloads ==
  {[EmptyPayload EXCEPT !.experience = l] :
     l \in {<<Ins>>, <<Upd(1)>>, <<Upd(2)>>, <<UpdUnknown>>,
            <<Ins, Upd(2)>>, <<Upd(1), Ins>>}}
  \cup {[EmptyPayload EXCEPT !.education = l] : l \in {<<Ins>>, <<Upd(1)>>}}
  \cup {[EmptyPayload EXCEPT !.skills = l] : l \in {<<Ins>>, <<UpdUnknown>>}}
  \cup {[EmptyPayload EXCEPT !.personalInfo = <<Ins>>]}

NextItems ==
  \/ Tick
  \/ Respond
  \/ \E u \in Users : Create(u, "str:T1")
  \/ \E u \in Users, d \in UUIDs, p \in PlainItemPayloads : Update(u, d, p)
  \/ \E u \in Users, d \in UUIDs : Restore(u, d, "str:archived")
  \/ \E u \in Users : GetAll(u)
  \/ \E u \in Users : GetTrash(u)
  \/ \E u \in Users, d \in UUIDs : GetById(u, d)
  \/ \E d \in UUIDs : GetPublic(d)

SpecItems == Init /\ [][NextItems]_vars

\* bodies that set the title and add an item, and bodies whose items (or
\* personalInfo) carry a docId of their own
CrossPayloads ==
  {[EmptyPayload EXCEPT !.title = "str:T2", !.experience = <<Ins>>]}
  \cup {[EmptyPayload EXCEPT !.experience = l] :
          l \in {<<Ins>>, <<Upd(1)>>, <<InsTo(2)>>, <<UpdTo(1, 2)>>}}
  \cup {[EmptyPayload EXCEPT !.education = <<Ins>>],
        [EmptyPayload EXCEPT !.skills = <<Ins>>],
        [EmptyPayload EXCEPT !.personalInfo = <<Ins>>],
        [EmptyPayload EXCEPT !.personalInfo = <<UpdTo(NoNum, 2)>>]}

NextCross ==
  \/ Tick
  \/ Respond
  \/ \E u \in Users : Create(u, "str:T1")
  \/ \E u \in Users, d \in UUIDs, p \in CrossPayloads : Update(u, d, p)
  \/ \E u \in Users, d \in UUIDs : Restore(u, d, "str:archived")
  \/ \E u \in Users : GetAll(u)
  \/ \E u \in Users : GetTrash(u)
  \/ \E u \in Users, d \in UUIDs : GetById(u, d)
  \/ \E d \in UUIDs : GetPublic(d)

SpecCross == Init /\ [][NextCross]_vars

\* ---------------------------------------------------------------- claims
Range(s) == {s[i] : i \in 1..Len(s)}

\* the documents (by position) a user owns
Owned(u) == {i \in 1..Len(documents) : documents[i].userId = u}

\* the target of a request by u for documentId d: the document with that
\* documentId and owner
IsTarget(i, u, d) == documents[i].documentId = d /\ documents[i].userId = u

\* this step is the handling of a request of kind op; req' holds the request
\* and resp' the answer
Handles(op) == Idle /\ req'.op = op

\* C2: creating a document with title T for user U appends exactly one
\* record with status private, userId U, title T, createdAt = updatedAt and
\* a documentId no other stored document carries; the stored documents are
\* left as they were and the record is what the call returns.
C2_CreateAppendsPrivateDocument ==
  [][Handles("create") =>
       /\ Len(documents') = Len(documents) + 1
       /\ SubSeq(documents', 1, Len(documents)) = documents
       /\ LET nd == documents'[Len(documents')] IN
            /\ nd.status = "str:private"
            /\ nd.userId = req'.user
            /\ nd.title = req'.body
            /\ nd.createdAt = nd.updatedAt
            /\ GetTime(nd.createdAt) = now
            /\ \A i \in 1..Len(documents) : documents[i].documentId # nd.documentId
            /\ resp'.code = 200 /\ resp'.data = nd
       /\ UNCHANGED children]_vars

\* a second document created after the first was archived by its owner
C2_Witness ==
  /\ req.op = "create" /\ req.user = "u2" /\ req.body = "str:T2"
  /\ resp.code = 200
  /\ Len(documents) = 2
  /\ documents[1].status = "str:archived"
  /\ documents[2] = resp.data

\* C3: the public route answers 200 exactly when a document with the named
\* documentId currently has status public, whoever asks; the aggregate it
\* returns is of that public document; otherwise it answers 401 with no data.
C3_PublicOnlyWhenStatusPublic ==
  req.op = "public" =>
    LET isPublic == \E i \in 1..Len(documents) :
                      /\ documents[i].documentId = req.documentId
                      /\ documents[i].status = "str:public"
    IN /\ resp.code \in {200, 401}
       /\ resp.code = 200 <=> isPublic
       /\ resp.code = 200 =>
            /\ resp.data.document.documentId = req.documentId
            /\ resp.data.document.status = "str:public"
            /\ resp.data.document \in Range(documents)
       /\ resp.code = 401 => resp.data = <<>>

\* the public route refuses a document that exists but is archived
C3_Witness ==
  /\ req.op = "public" /\ resp.code = 401
  /\ \E i \in 1..Len(documents) :
       /\ documents[i].documentId = req.documentId
       /\ documents[i].status = "str:archived"
       /\ GetTime(documents[i].updatedAt) > GetTime(documents[i].createdAt)

\* C4: for every user the active listing holds no archived document, the
\* archived listing holds only archived ones, both hold only the user's
\* documents, they are disjoint and together are exactly the user's documents.
C4_ListingsPartitionOwnedDocuments ==
  \A u \in Users :
    LET active == ListActive(u)
        archived == ListArchived(u)
    IN /\ \A i \in 1..Len(active) :
            active[i].status # "str:archived" /\ active[i].userId = u
       /\ \A i \in 1..Len(archived) :
            archived[i].status = "str:archived" /\ archived[i].userId = u
       /\ Range(active) \cap Range(archived) = {}
       /\ Range(active) \cup Range(archived) = {documents[i] : i \in Owned(u)}
       /\ Len(active) + Len(archived) = Cardinality(Owned(u))
       /\ (req.op = "all" /\ req.user = u) => resp.data = active
       /\ (req.op = "trash" /\ req.user = u) => resp.data = archived

\* a user with one public and one archived document asks for the active listing
C4_Witness ==
  /\ req.op = "all" /\ Len(resp.data) = 1
  /\ resp.data[1].status = "str:public"
  /\ Len(ListArchived(req.user)) = 1
  /\ Cardinality(Owned(req.user)) = 2

\* C5: a restore whose body status is not "archived" is answered 400 and
\* changes no collection, also when the named document is the caller's and
\* is archived.
C5_RestoreRejectsOtherStatus ==
  [][(Handles("restore") /\ req'.body # "str:archived") =>
       /\ resp'.code = 400
       /\ UNCHANGED store]_vars

\* a restore with status private is refused for the caller's archived document
C5_Witness ==
  /\ req.op = "restore" /\ req.body = "str:private" /\ resp.code = 400
  /\ \E i \in 1..Len(documents) :
       /\ documents[i].documentId = req.documentId
       /\ documents[i].userId = req.user
       /\ documents[i].status = "str:archived"

\* C8: a document's updatedAt never decreases from one state to the next,
\* is never earlier than its createdAt, and every successful update and
\* every successful restore sets it to the time of the call.
C8_UpdatedAtMonotonic ==
  /\ [](\A i \in 1..Len(documents) :
          GetTime(documents[i].updatedAt) >= GetTime(documents[i].createdAt))
  /\ [][/\ Len(documents') >= Len(documents)
        /\ \A i \in 1..Len(documents) :
             /\ GetTime(documents'[i].updatedAt) >= GetTime(documents[i].updatedAt)
             /\ documents'[i].createdAt = documents[i].createdAt
        /\ \A i \in 1..Len(documents) :
             (/\ Handles("update") \/ Handles("restore")
              /\ resp'.code = 200
              /\ IsTarget(i, req'.user, req'.documentId))
             => GetTime(documents'[i].updatedAt) = now]_vars

\* an update with an empty body refreshed the timestamp of an untouched document
C8_Witness ==
  /\ req.op = "update" /\ req.body = EmptyPayload /\ resp.code = 200
  /\ \E i \in 1..Len(documents) :
       /\ IsTarget(i, req.user, req.documentId)
       /\ GetTime(documents[i].createdAt) = 1
       /\ GetTime(documents[i].updatedAt) = 2
       /\ documents[i].status = "str:private"

\* C10: a restore with status "archived" succeeds exactly when the caller
\* owns an archived document with the named documentId; then that document
\* alone becomes private (moving from the archived to the active listing),
\* its timestamp is refreshed, nothing else changes, and no such archived
\* document is left; otherwise it is answered 404 and nothing changes.
C10_RestoreExactlyArchivedOwned ==
  [][\A u \in Users, d \in RestoreTargets \ {""} :
       (Handles("restore") /\ req'.body = "str:archived"
          /\ req'.user = u /\ req'.documentId = d) =>
       LET hit == {i \in 1..Len(documents) :
                     IsTarget(i, u, d) /\ documents[i].status = "str:archived"}
       IN IF hit # {}
          THEN /\ resp'.code = 200
               /\ \E i \in hit :
                    /\ documents' = [documents EXCEPT
                                       ![i].status = "str:private",
                                       ![i].updatedAt = ToISOString(now)]
                    /\ resp'.data = documents'[i]
                    /\ documents[i] \in Range(ListArchived(u))
                    /\ documents'[i] \in Range(ListActiveOf(documents', u))
                    /\ documents'[i] \notin Range(ListArchived(u)')
               /\ \A i \in 1..Len(documents') :
                    ~(IsTarget(i, u, d)' /\ documents'[i].status = "str:archived")
               /\ UNCHANGED children
          ELSE /\ resp'.code = 404
               /\ UNCHANGED store]_vars

\* a restore succeeded while another archived document stayed archived
C10_Witness ==
  /\ req.op = "restore" /\ resp.code = 200
  /\ Len(documents) = 2
  /\ \E i, j \in 1..2 :
       /\ i # j
       /\ documents[i] = resp.data
       /\ documents[i].status = "str:private"
       /\ GetTime(documents[i].updatedAt) > GetTime(documents[i].createdAt)
       /\ documents[j].status = "str:archived"

\* the values the claim calls not supplied: absent, empty string, 0, false
\* (and null, which JavaScript also takes as falsy)
NotSupplied == {Undefined, "str:", "num:0", "bool:false", "null"}

\* C6: in an update by the owner a scalar field supplied as empty string, 0,
\* false (or absent) keeps its stored value, and a field supplied with a
\* truthy value takes that value; the update is answered 200.
C6_TruthyOnlyOverwrite ==
  [][Handles("update") =>
       \A i \in 1..Len(documents) :
         IsTarget(i, req'.user, req'.documentId) =>
           /\ resp'.code = 200
           /\ \A f \in ScalarFields :
                IF req'.body[f] \in NotSupplied
                THEN documents'[i][f] = documents[i][f]
                ELSE documents'[i][f] = req'.body[f]
           /\ \A j \in 1..Len(documents) : j # i => documents'[j] = documents[j]]_vars

\* a body of mixed fields: the falsy ones kept the values an earlier update
\* stored, the truthy ones replaced them
C6_Witness ==
  /\ req.op = "update" /\ resp.code = 200
  /\ req.body.title = "num:0" /\ req.body.thumbnail = "str:b.png"
  /\ \E i \in 1..Len(documents) :
       /\ IsTarget(i, req.user, req.documentId)
       /\ documents[i].title = "str:T2"
       /\ documents[i].summary = "str:s1"
       /\ documents[i].status = "str:public"
       /\ documents[i].thumbnail = "str:b.png"
       /\ documents[i].currentPosition = "num:2"

\* the number of items of a list that carry no id
IdLess(L) == Cardinality({k \in 1..Len(L) : L[k].id = NoNum})

\* what an update with list L for the document with internal id D may do to
\* the collection X (X2 afterwards): one record more per item without id and
\* none for an item with an id; a stored record is left as it was unless an
\* item names its id and its docId is D; and if every item of L has an id
\* that no stored record of D carries, X is unchanged.
DropFrame(X, X2, L, D) ==
  /\ Len(X2) = Len(X) + IdLess(L)
  /\ \A r \in 1..Len(X) :
       (~\E k \in 1..Len(L) : L[k].id = X[r].id /\ X[r].docId = D) => X2[r] = X[r]
  /\ (\A k \in 1..Len(L) :
        /\ L[k].id # NoNum
        /\ ~\E r \in 1..Len(X) : X[r].id = L[k].id /\ X[r].docId = D)
     => X2 = X

\* C7: in an update by the owner, an item of the experience, education or
\* skills list whose id is carried by no record of the target document
\* (unknown, or the id of a record of another document) merges nothing,
\* inserts nothing and touches no record of another document, and the call
\* is still answered 200.
C7_UnmatchedIdSilentlyDropped ==
  [][Handles("update") =>
       \A i \in 1..Len(documents) :
         IsTarget(i, req'.user, req'.documentId) =>
           /\ resp'.code = 200
           /\ DropFrame(experience, experience', req'.body.experience, documents[i].id)
           /\ DropFrame(education, education', req'.body.education, documents[i].id)
           /\ DropFrame(skills, skills', req'.body.skills, documents[i].id)]_vars

\* an item naming the id of a record of another document was dropped
C7_Witness ==
  /\ req.op = "update" /\ resp.code = 200
  /\ Len(req.body.experience) = 1
  /\ Len(experience) = 1
  /\ req.body.experience[1].id = experience[1].id
  /\ experience[1].val = "str:a"
  /\ \E i, j \in 1..Len(documents) :
       /\ IsTarget(i, req.user, req.documentId)
       /\ documents[i].id # experience[1].docId
       /\ documents[j].id = experience[1].docId

\* a collection whose records with a docId in ids are neither modified nor
\* created on the way from X to X2
Untouched(X, X2, ids) ==
  /\ Len(X2) >= Len(X)
  /\ \A r \in 1..Len(X) : X[r].docId \in ids => X2[r] = X[r]
  /\ \A r \in 1..Len(X2) : X2[r].docId \in ids => (r <= Len(X) /\ X2[r] = X[r])

\* C1: an update for a documentId the caller does not own is answered 404
\* and changes nothing; otherwise it creates or modifies no document of
\* another user and no child record whose docId is the internal id of
\* another user's document, whatever the body carries.
C1_NoCrossUserEdits ==
  [][Handles("update") =>
       LET u == req'.user
           d == req'.documentId
       IN IF ~\E i \in 1..Len(documents) : IsTarget(i, u, d)
          THEN resp'.code = 404 /\ UNCHANGED store
          ELSE LET others == {documents[i].id : i \in (1..Len(documents)) \ Owned(u)} IN
               /\ Len(documents') = Len(documents)
               /\ \A i \in (1..Len(documents)) \ Owned(u) : documents'[i] = documents[i]
               /\ Untouched(personalInfo, personalInfo', others)
               /\ Untouched(experience, experience', others)
               /\ Untouched(education, education', others)
               /\ Untouched(skills, skills', others)]_vars

\* bodies that add one plain item (no id, no docId), with or without a new title
JoinPayloads ==
  {[EmptyPayload EXCEPT !.title = "str:T2", !.experience = <<Ins>>],
   [EmptyPayload EXCEPT !.experience = <<Ins>>],
   [EmptyPayload EXCEPT !.education = <<Ins>>],
   [EmptyPayload EXCEPT !.skills = <<Ins>>]}

\* the records X2 holds beyond X are returned for the document (mine) and
\* for no other document (theirs), and the document's list grew by them alone
JoinedOnlyHere(X, X2, L, before, mine, theirs) ==
  /\ Len(X2) = Len(X) + IdLess(L)
  /\ Len(mine) = Len(before) + IdLess(L)
  /\ \A k \in (Len(X) + 1)..Len(X2) : X2[k] \in Range(mine) /\ X2[k] \notin theirs

\* C9: after an owner's update that sets a title and adds items without id,
\* getById returns the document with the new title and, per item, exactly
\* one new record, whose docId is the document's internal id and which
\* getById returns for no other document.
C9_InsertedItemsJoinOnlyTheirDocument ==
  [][\A u \in Users, d \in UUIDs :
       (Handles("update") /\ req'.body \in JoinPayloads
          /\ req'.user = u /\ req'.documentId = d) =>
       \A i \in 1..Len(documents) :
         IsTarget(i, u, d) =>
           LET p == req'.body
               got == GetByIdResp(u, d)'
               was == Aggregate(documents[i])
               rest == {Aggregate(documents[j])' : j \in (1..Len(documents)) \ {i}}
           IN /\ got.code = 200
              /\ Truthy(p.title) => got.data.document.title = p.title
              /\ \A k \in 1..Len(got.data.experiences) :
                   got.data.experiences[k].docId = got.data.document.id
              /\ JoinedOnlyHere(experience, experience', p.experience, was.experiences,
                   got.data.experiences, UNION {Range(a.experiences) : a \in rest})
              /\ JoinedOnlyHere(education, education', p.education, was.educations,
                   got.data.educations, UNION {Range(a.educations) : a \in rest})
              /\ JoinedOnlyHere(skills, skills', p.skills, was.skills,
                   got.data.skills, UNION {Range(a.skills) : a \in rest})]_vars

====
